---- MODULE Spec2Model ----
(***************************************************************************)
(* State machine of the App component (src/App.tsx): the session life      *)
(* cycle (startSession / stopSession and the callbacks onopen, onmessage,  *)
(* onerror, onclose of the live connection), the playback scheduler of     *)
(* onmessage, and the verse tracker of the tool-call handling.             *)
(*                                                                         *)
(* Every invocation of startSession gets a number i in 1..MaxSessions.     *)
(* Invocation i owns the connection i (ws[i]) and the two audio contexts   *)
(* it creates (inCtx[i], outCtx[i]); the refs of the component hold the    *)
(* number of the object they point to, 0 for null.                         *)
(***************************************************************************)
EXTENDS Integers, Sequences, FiniteSets

\* ---------------------------------------------------------------- bounds
MaxSessions   == 2     \* startSession invocations in one run
AudioSessions == 1     \* the same, in the runs with audio messages
MaxTime       == 1     \* the output clocks run from 0 to MaxTime
MaxAudio      == 2     \* audio buffers received in one run
ToolSessions  == 1     \* the same, in the runs that record what is sent
MaxCalls      == 3     \* function calls received in one recorded run
MicSessions   == 2     \* the same, in the runs with microphone chunks
MaxChunks     == 2     \* microphone chunks captured in one run

Sess      == 1..MaxSessions
Durations == {1}                          \* audioBuffer.duration

\* ---------------------------------------------------------------- state
VARIABLES
  appState,               \* useState<AppState>
  error,                  \* useState<string | null>: "null", or the message
  isVerifyingSequence,    \* useState<boolean>
  verseHistory,           \* useState<VerseIdentification[]>
  sessionRef,             \* 0, or the connection whose handle is stored
  audioContextRef,        \* 0, or the invocation whose input context is held
  outputAudioContextRef,  \* 0, or the invocation whose output context is held
  nextStartTimeRef,       \* the scheduling cursor
  sourcesRef,             \* the playback buffer set: the sources it holds
  nStarted,               \* number of startSession invocations so far
  pc,                     \* pc[i]: where invocation i of startSession is
  ws,                     \* ws[i]: state of connection i
  opened,                 \* connections whose onopen has run
  inCtx, outCtx,          \* state of the audio contexts of invocation i
  clock,                  \* clock[i]: currentTime of output context i
  lastStarted,            \* the source started last
  gone,                   \* the sources that ended or were stopped
  pending,                \* onmessage calls waiting at await decodeAudioData
  intrSince,              \* an interruption was handled since the last start()
  stopRan,                \* stopSession ran and startSession was not invoked since
  proc,                   \* proc[i]: the running input context that drives the
                          \* script processor built by onopen of connection i,
                          \* 0 when there is none
  nChunks,                \* microphone chunks captured so far
  logging,                \* what the component sends is being recorded
  received,               \* recorded: id and name of the function calls handled
  sent,                   \* recorded: what was handed to the session handles
  thens,                  \* recorded: thens[i], the sends that wait for the
                          \* connection promise of invocation i
  dupSeen                 \* a call repeating a stored verse with another text
                          \* was handled since the last startSession

vars == <<appState, error, isVerifyingSequence, verseHistory, sessionRef,
          audioContextRef, outputAudioContextRef, nextStartTimeRef, sourcesRef,
          nStarted, pc, ws, opened, inCtx, outCtx, clock, lastStarted, gone, pending,
          intrSince, stopRan, dupSeen, proc, nChunks, logging, received, sent,
          thens>>

audioVars == <<nextStartTimeRef, sourcesRef, lastStarted, gone, pending,
              intrSince>>

logVars == <<logging, received, sent, thens>>
micVars == <<proc, nChunks>>

Max(a, b) == IF a >= b THEN a ELSE b

\* ----------------------------------------------------------- verse tracker
Verse(s, a, v) ==
  [surahName |-> s, ayahNumber |-> a, transcription |-> v,
   translationEn |-> v, translationEs |-> v]

\* the function calls the service sends: two wordings of one verse, the next
\* verse of the surah, and a call of another tool
FunctionCalls ==
  {[name |-> "identifyQuranVerse", args |-> Verse("Al-Fatiha", "1", "v1")],
   [name |-> "identifyQuranVerse", args |-> Verse("Al-Fatiha", "1", "v2")],
   [name |-> "identifyQuranVerse", args |-> Verse("Al-Fatiha", "2", "v1")],
   [name |-> "otherTool", args |-> Verse("Al-Fatiha", "1", "v1")]}

\* a duplicate test that also compares the texts
isDuplicateByWholeEntry(prev, result) ==
  \E k \in 1..Len(prev) : prev[k] = result

isDuplicate(prev, result) ==
  \E k \in 1..Len(prev) :
     prev[k].surahName = result.surahName /\ prev[k].ayahNumber = result.ayahNumber

\* an updater that overwrites the stored verse with the repeated one
AppendVerseOverwriting(prev, result) ==
  IF isDuplicate(prev, result)
    THEN [k \in 1..Len(prev) |->
            IF prev[k].surahName = result.surahName
               /\ prev[k].ayahNumber = result.ayahNumber
              THEN result ELSE prev[k]]
    ELSE Append(prev, result)

\* the updater handed to setVerseHistory
AppendVerse(prev, result) ==
  IF isDuplicate(prev, result) THEN prev ELSE Append(prev, result)

RECURSIVE HistoryAfter(_, _)
HistoryAfter(prev, calls) ==
  IF calls = <<>> THEN prev
  ELSE HistoryAfter(
         IF Head(calls).name = "identifyQuranVerse"
           THEN AppendVerse(prev, Head(calls).args) ELSE prev,
         Tail(calls))

Identified(calls) ==
  {k \in 1..Len(calls) : calls[k].name = "identifyQuranVerse"}

\* setIsVerifyingSequence(true) for every identifyQuranVerse call
FlagAfter(flag, calls) == IF Identified(calls) # {} THEN TRUE ELSE flag

\* a call names a stored verse and carries another text for it
DiffersFromStored(prev, calls) ==
  \E k \in Identified(calls) : \E j \in 1..Len(prev) :
     /\ prev[j].surahName = calls[k].args.surahName
     /\ prev[j].ayahNumber = calls[k].args.ayahNumber
     /\ prev[j] # calls[k].args

\* ------------------------------------------------------------- messages
SameVerse(c, d) ==
  c.args.surahName = d.args.surahName /\ c.args.ayahNumber = d.args.ayahNumber

\* message.toolCall.functionCalls: none, one call, or two calls for one verse
CallSeqs ==
  {<<>>} \cup {<<c>> : c \in FunctionCalls}
         \cup {cs \in {<<c, d>> : c \in FunctionCalls, d \in FunctionCalls} :
                  cs[1] # cs[2] /\ SameVerse(cs[1], cs[2])}

\* a LiveServerMessage: dur > 0 iff it carries inline audio of that duration
Messages ==
  [dur : {0} \cup Durations, interrupted : BOOLEAN, calls : CallSeqs]

\* the messages of a stream of audio and interruptions: a message carries
\* audio or reports an interruption
AudioMessages ==
  {m \in Messages : m.calls = <<>> /\ ((m.dur = 0) = m.interrupted)}

\* the messages of a stream of tool calls
ToolMessages ==
  {m \in Messages : m.dur = 0 /\ ~m.interrupted /\ m.calls # <<>>}

\* lastStarted before any source was started
NoSource == [id |-> 0, when |-> 0, dur |-> 0, afterIntr |-> FALSE]

\* ---------------------------------------------------------------- Init
Boot(log) ==
  /\ appState = "IDLE"
  /\ error = "null"
  /\ isVerifyingSequence = FALSE
  /\ verseHistory = <<>>
  /\ sessionRef = 0
  /\ audioContextRef = 0
  /\ outputAudioContextRef = 0
  /\ nextStartTimeRef = 0
  /\ sourcesRef = {}
  /\ nStarted = 0
  /\ pc = [i \in Sess |-> "none"]
  /\ ws = [i \in Sess |-> "none"]
  /\ opened = {}
  /\ inCtx = [i \in Sess |-> "none"]
  /\ outCtx = [i \in Sess |-> "none"]
  /\ clock = [i \in Sess |-> 0]
  /\ lastStarted = NoSource
  /\ gone = {}
  /\ pending = <<>>
  /\ intrSince = FALSE
  /\ stopRan = FALSE
  /\ dupSeen = FALSE
  /\ proc = [i \in Sess |-> 0]
  /\ nChunks = 0
  /\ logging = log
  /\ received = <<>>
  /\ sent = <<>>
  /\ thens = [i \in Sess |-> <<>>]

Init == Boot(FALSE)

\* the same state, with what is sent being recorded
InitLogged == Boot(TRUE)

\* ------------------------------------------------------------ stopSession
\* session.close() on the stored handle
WsAfterStop(w) ==
  IF sessionRef # 0 /\ w[sessionRef] \in {"connecting", "open"}
    THEN [w EXCEPT ![sessionRef] = "closing"] ELSE w

CtxAfterStop(c, ref) ==
  IF ref # 0 THEN [c EXCEPT ![ref] = "closed"] ELSE c

\* closing the input context ref stops the script processors built on it
ProcAfterStop(pr, ref) ==
  [i \in Sess |-> IF pr[i] = ref THEN 0 ELSE pr[i]]

\* the body of stopSession, but for ws (the caller may change ws too)
stopSession ==
  /\ sessionRef' = 0
  /\ inCtx' = CtxAfterStop(inCtx, audioContextRef)
  /\ proc' = ProcAfterStop(proc, audioContextRef)
  /\ audioContextRef' = 0
  /\ outCtx' = CtxAfterStop(outCtx, outputAudioContextRef)
  /\ outputAudioContextRef' = 0
  /\ appState' = "IDLE"
  /\ isVerifyingSequence' = FALSE
  /\ stopRan' = TRUE

\* the button runs stopSession unless appState is IDLE; it is disabled
\* while appState is CONNECTING
StopClick ==
  /\ appState \notin {"IDLE", "CONNECTING"}
  /\ stopSession
  /\ ws' = WsAfterStop(ws)
  /\ UNCHANGED <<error, verseHistory, nStarted, pc, opened, clock, audioVars,
                 dupSeen>>
  /\ UNCHANGED <<logVars, nChunks>>

\* ----------------------------------------------------------- startSession
\* the button runs startSession when appState is IDLE: lines 52-61, up to
\* the await of getUserMedia
StartSession(limit) ==
  /\ appState = "IDLE"
  /\ nStarted < limit
  /\ nStarted' = nStarted + 1
  /\ pc' = [pc EXCEPT ![nStarted + 1] = "media"]
  /\ error' = "null"
  /\ appState' = "CONNECTING"
  /\ verseHistory' = <<>>
  /\ stopRan' = FALSE
  /\ dupSeen' = FALSE
  /\ UNCHANGED <<isVerifyingSequence, sessionRef, audioContextRef,
                 outputAudioContextRef, ws, opened, inCtx, outCtx, clock,
                 audioVars>>
  /\ UNCHANGED <<logVars, micVars>>

\* getUserMedia resolved: lines 63-68, the contexts are created and
\* ai.live.connect is called; then the await of line 185
MediaGranted(i) ==
  /\ pc[i] = "media"
  /\ pc' = [pc EXCEPT ![i] = "connect"]
  /\ inCtx' = [inCtx EXCEPT ![i] = "running"]
  /\ outCtx' = [outCtx EXCEPT ![i] = "running"]
  /\ audioContextRef' = i
  /\ outputAudioContextRef' = i
  /\ ws' = [ws EXCEPT ![i] = "connecting"]
  /\ UNCHANGED <<appState, error, isVerifyingSequence, verseHistory, sessionRef,
                 nStarted, opened, clock, audioVars, stopRan, dupSeen>>
  /\ UNCHANGED <<logVars, micVars>>

\* the catch clause of startSession
catch ==
  /\ error' = "Failed to start session."
  /\ appState' = "IDLE"

\* getUserMedia rejected (or the client could not be built)
MediaDenied(i) ==
  /\ pc[i] = "media"
  /\ pc' = [pc EXCEPT ![i] = "failed"]
  /\ catch
  /\ UNCHANGED <<isVerifyingSequence, verseHistory, sessionRef, audioContextRef,
                 outputAudioContextRef, nStarted, ws, opened, inCtx, outCtx,
                 clock, audioVars, stopRan, dupSeen>>
  /\ UNCHANGED <<logVars, micVars>>

\* the connection promise rejected before the connection opened
ConnectRejected(i) ==
  /\ pc[i] = "connect" /\ ws[i] = "connecting"
  /\ pc' = [pc EXCEPT ![i] = "failed"]
  /\ ws' = [ws EXCEPT ![i] = "closed"]
  /\ catch
  /\ UNCHANGED <<isVerifyingSequence, verseHistory, sessionRef, audioContextRef,
                 outputAudioContextRef, nStarted, opened, inCtx, outCtx, clock,
                 audioVars, stopRan, dupSeen>>
  /\ UNCHANGED <<logVars, micVars>>

\* line 185: the connection promise resolved, the handle is stored
ConnectResolved(i) ==
  /\ pc[i] = "connect" /\ i \in opened
  /\ pc' = [pc EXCEPT ![i] = "done"]
  /\ sessionRef' = i
  /\ UNCHANGED <<appState, error, isVerifyingSequence, verseHistory,
                 audioContextRef, outputAudioContextRef, nStarted, ws, opened,
                 inCtx, outCtx, clock, audioVars, stopRan, dupSeen>>
  /\ sent' = sent \o thens[i]
  /\ thens' = [thens EXCEPT ![i] = <<>>]
  /\ UNCHANGED <<logging, received, micVars>>

\* -------------------------------------------------------------- callbacks
OnOpen(i) ==
  /\ ws[i] = "connecting"
  /\ ws' = [ws EXCEPT ![i] = "open"]
  /\ opened' = opened \cup {i}
  /\ appState' = "LISTENING"
  /\ UNCHANGED <<error, isVerifyingSequence, verseHistory, sessionRef,
                 audioContextRef, outputAudioContextRef, nStarted, pc, inCtx,
                 outCtx, clock, audioVars, stopRan, dupSeen>>
  /\ proc' = [proc EXCEPT ![i] = audioContextRef]
  /\ UNCHANGED <<nChunks, logVars>>

\* a transport error: the connection is on its way to closed afterwards
OnError(i) ==
  /\ ws[i] \in {"connecting", "open"}
  /\ error' = "Stream error. This is often caused by network latency."
  /\ stopSession
  /\ ws' = WsAfterStop([ws EXCEPT ![i] = "closing"])
  /\ UNCHANGED <<verseHistory, nStarted, pc, opened, clock, audioVars, dupSeen>>
  /\ UNCHANGED <<logVars, nChunks>>

\* the close event: after close(), after an error, or closed by the server
OnClose(i) ==
  /\ ws[i] \in {"open", "closing"}
  /\ ws' = [ws EXCEPT ![i] = "closed"]
  /\ appState' = "IDLE"
  /\ isVerifyingSequence' = FALSE
  /\ UNCHANGED <<error, verseHistory, sessionRef, audioContextRef,
                 outputAudioContextRef, nStarted, pc, opened, inCtx, outCtx,
                 clock, audioVars, stopRan, dupSeen>>
  /\ UNCHANGED <<logVars, micVars>>

\* ---------------------------------------------------- playback scheduler
\* line 91: the cursor is raised to the output clock when the message arrives
CursorOnArrival(cursor, now) == Max(cursor, now)

\* line 97: source.start(nextStartTimeRef.current)
StartTime(cursor) == cursor

\* a cursor that is not moved past the buffer just started
CursorAfterStartUnmoved(cursor, dur) == cursor

\* line 98: nextStartTimeRef.current += audioBuffer.duration
CursorAfterStart(cursor, dur) == cursor + dur

\* line 99: sourcesRef.current.add(source)
SetAfterStart(set, src) == set \cup {src}

\* an 'ended' listener that leaves the source in the set
SetAfterEndedKept(set, src) == set

\* line 96: the 'ended' listener of source src
SetAfterEnded(set, src) == set \ {src}

\* lines 103-105: every source of the set is stopped, the set is cleared,
\* the cursor is reset
SetAfterInterrupt(set) == {}
CursorAfterInterrupt(cursor) == 0

Ids(set) == {src.id : src \in set}

\* a call of the message repeats a verse stored before it, with another text
SeesChangedDuplicate(prev, calls) ==
  \E k \in Identified(calls) :
     DiffersFromStored(HistoryAfter(prev, SubSeq(calls, 1, k - 1)), <<calls[k]>>)

\* lines 102-130 of onmessage, run on the audio state set, cursor, stopped,
\* intr that lines 88-100 left
Rest(m, set, cursor, stopped, intr) ==
  /\ sourcesRef' = IF m.interrupted THEN SetAfterInterrupt(set) ELSE set
  /\ gone' = IF m.interrupted THEN stopped \cup Ids(set) ELSE stopped
  /\ nextStartTimeRef' = IF m.interrupted THEN CursorAfterInterrupt(cursor)
                                          ELSE cursor
  /\ intrSince' = (m.interrupted \/ intr)
  /\ verseHistory' = HistoryAfter(verseHistory, m.calls)
  /\ isVerifyingSequence' = FlagAfter(isVerifyingSequence, m.calls)
  /\ dupSeen' = (dupSeen \/ SeesChangedDuplicate(verseHistory, m.calls))

\* the output clocks after d more units of time: the clocks of the running
\* contexts advance together, a closed context's clock stands still
CanAdvance(d) ==
  \A i \in Sess : outCtx[i] = "running" => clock[i] + d <= MaxTime
Advance(d) ==
  [i \in Sess |-> IF outCtx[i] = "running" THEN clock[i] + d ELSE clock[i]]

\* sessionPromise.then(session => session.send...(item)) for every item of
\* items, in connection i's callbacks: run at once when the promise has
\* resolved, kept for its resolution while it is pending
Send(i, items) ==
  IF logging /\ pc[i] = "done"
    THEN sent' = sent \o items /\ UNCHANGED thens
  ELSE IF logging /\ pc[i] = "connect"
    THEN thens' = [thens EXCEPT ![i] = @ \o items] /\ UNCHANGED sent
  ELSE UNCHANGED <<sent, thens>>

\* the function calls of a message, the first of them being call number n + 1
\* of the run: fc.id is that number
WithIds(calls, n) ==
  [k \in 1..Len(calls) |->
     [id |-> n + k, name |-> calls[k].name, args |-> calls[k].args]]

\* lines 124-126: the functionResponses for the call fc, sent to session i
ToolResponse(i, fc) ==
  [kind |-> "toolResponse", to |-> i, id |-> fc.id, name |-> fc.name]

\* a response for every call, whatever its name
ResponsesForAll(i, calls) ==
  [k \in 1..Len(calls) |-> ToolResponse(i, calls[k])]

\* lines 113-127: a response for every identifyQuranVerse call, in order
RECURSIVE ResponsesFor(_, _)
ResponsesFor(i, calls) ==
  IF calls = <<>> THEN <<>>
  ELSE (IF Head(calls).name = "identifyQuranVerse"
          THEN <<ToolResponse(i, Head(calls))>> ELSE <<>>)
       \o ResponsesFor(i, Tail(calls))

\* the tool-call part of onmessage as the session sees it
Respond(i, calls) ==
  /\ received' =
       IF logging
         THEN received \o [k \in 1..Len(calls) |->
                 [id |-> WithIds(calls, Len(received))[k].id,
                  name |-> calls[k].name]]
         ELSE received
  /\ IF calls = <<>> THEN UNCHANGED <<sent, thens>>
     ELSE Send(i, ResponsesFor(i, WithIds(calls, Len(received))))
  /\ UNCHANGED logging

\* an interruption was handled while these onmessage calls waited
MarkStale(q) == [k \in 1..Len(q) |-> [q[k] EXCEPT !.stale = TRUE]]

\* onmessage of connection i for a message with audio, d units of time after
\* the last event, while an output context is held: lines 88-92, up to the
\* await of decodeAudioData
OnMessageAudio(i, m, d) ==
  /\ ws[i] = "open"
  /\ m.dur > 0 /\ outputAudioContextRef # 0
  /\ lastStarted.id + Len(pending) < MaxAudio
  /\ CanAdvance(d)
  /\ clock' = Advance(d)
  /\ nextStartTimeRef' =
       CursorOnArrival(nextStartTimeRef, clock'[outputAudioContextRef])
  /\ pending' = Append(pending,
       [conn |-> IF m.calls = <<>> THEN 0 ELSE i,
        ctx |-> outputAudioContextRef, msg |-> m,
        sampled |-> clock'[outputAudioContextRef], stale |-> FALSE])
  /\ UNCHANGED <<appState, error, isVerifyingSequence, verseHistory, sessionRef,
                 audioContextRef, outputAudioContextRef, sourcesRef, nStarted,
                 pc, ws, opened, inCtx, outCtx, lastStarted, gone,
                 intrSince, stopRan, dupSeen>>
  /\ UNCHANGED <<logVars, micVars>>

\* onmessage of connection i for a message without audio, or while no
\* output context is held: lines 88-89 and 102-134, no await
OnMessagePlain(i, m) ==
  /\ ws[i] = "open"
  /\ ~(m.dur > 0 /\ outputAudioContextRef # 0)
  /\ logging => Len(received) + Len(m.calls) <= MaxCalls
  /\ Rest(m, sourcesRef, nextStartTimeRef, gone, intrSince)
  /\ Respond(i, m.calls)
  /\ pending' = IF m.interrupted THEN MarkStale(pending) ELSE pending
  /\ UNCHANGED <<appState, error, sessionRef, audioContextRef,
                 outputAudioContextRef, nStarted, pc, ws, opened, inCtx, outCtx,
                 clock, lastStarted, stopRan, micVars>>

\* the AudioBuffer decoded from the audio of message m, as its duration
decodeAudioData(m) == m.dur

\* the source that lines 93-97 start for the waiting call h
NewSource(h) ==
  [id |-> lastStarted.id + 1, when |-> StartTime(nextStartTimeRef),
   dur |-> decodeAudioData(h.msg), afterIntr |-> intrSince]

\* the decode of the oldest waiting onmessage call is done: lines 93-99,
\* then the rest of the handler
DecodeDone ==
  /\ pending # <<>>
  /\ LET h   == Head(pending)
         new == NewSource(h)
         src == [id |-> new.id, ctx |-> h.ctx, end |-> new.when + new.dur]
     IN  /\ lastStarted' = new
         /\ Rest(h.msg, SetAfterStart(sourcesRef, src),
                 CursorAfterStart(nextStartTimeRef, new.dur), gone, FALSE)
         /\ Respond(h.conn, h.msg.calls)
         /\ pending' = IF h.msg.interrupted THEN MarkStale(Tail(pending))
                                            ELSE Tail(pending)
  /\ UNCHANGED <<appState, error, sessionRef, audioContextRef,
                 outputAudioContextRef, nStarted, pc, ws, opened, inCtx, outCtx,
                 clock, stopRan, micVars>>

\* the 'ended' event of a source, d units of time after the last event, once
\* its context played it to the end
Ended(src, d) ==
  /\ src \in sourcesRef
  /\ outCtx[src.ctx] = "running"
  /\ CanAdvance(d)
  /\ clock' = Advance(d)
  /\ clock'[src.ctx] >= src.end
  /\ sourcesRef' = SetAfterEnded(sourcesRef, src)
  /\ gone' = gone \cup {src.id}
  /\ UNCHANGED <<appState, error, isVerifyingSequence, verseHistory, sessionRef,
                 audioContextRef, outputAudioContextRef, nextStartTimeRef,
                 nStarted, pc, ws, opened, inCtx, outCtx, lastStarted,
                 pending, intrSince, stopRan, dupSeen>>
  /\ UNCHANGED <<logVars, micVars>>

\* lines 76-82: onaudioprocess of the script processor that onopen of
\* connection i built, while its context runs: a chunk is captured and its
\* send is chained on the connection promise
RealtimeInput(i, n) == [kind |-> "realtimeInput", to |-> i, chunk |-> n]

OnAudioProcess(i) ==
  /\ proc[i] # 0 /\ inCtx[proc[i]] = "running"
  /\ nChunks < MaxChunks
  /\ nChunks' = nChunks + 1
  /\ Send(i, <<RealtimeInput(i, nChunks + 1)>>)
  /\ UNCHANGED <<appState, error, isVerifyingSequence, verseHistory, sessionRef,
                 audioContextRef, outputAudioContextRef, nStarted, pc, ws,
                 opened, inCtx, outCtx, clock, audioVars, stopRan, dupSeen,
                 proc, logging, received>>

\* ------------------------------------------------------------------ Next
\* the session life cycle, with at most limit invocations of startSession
Life(limit) ==
  \/ StartSession(limit)
  \/ StopClick
  \/ \E i \in Sess : MediaGranted(i)
  \/ \E i \in Sess : MediaDenied(i)
  \/ \E i \in Sess : ConnectRejected(i)
  \/ \E i \in Sess : ConnectResolved(i)
  \/ \E i \in Sess : OnOpen(i)
  \/ \E i \in Sess : OnError(i)
  \/ \E i \in Sess : OnClose(i)

\* the life cycle and a stream of tool calls
Next ==
  \/ Life(MaxSessions)
  \/ \E i \in Sess, m \in ToolMessages : OnMessagePlain(i, m)

Spec == Init /\ [][Next]_vars

\* the life cycle and a stream of audio and interruptions
NextAudio ==
  \/ Life(AudioSessions)
  \/ \E i \in Sess, m \in AudioMessages, d \in 0..MaxTime :
        OnMessageAudio(i, m, d)
  \/ \E i \in Sess, m \in AudioMessages : OnMessagePlain(i, m)
  \/ DecodeDone
  \/ \E src \in sourcesRef, d \in 0..MaxTime : Ended(src, d)

SpecAudio == Init /\ [][NextAudio]_vars

\* the life cycle and a stream of tool calls, what is sent being recorded
NextTools ==
  \/ Life(ToolSessions)
  \/ \E i \in Sess, m \in ToolMessages : OnMessagePlain(i, m)

SpecTools == InitLogged /\ [][NextTools]_vars

\* the life cycle and the microphone, what is sent being recorded
NextMic ==
  \/ Life(MicSessions)
  \/ \E i \in Sess : OnAudioProcess(i)

SpecMic == InitLogged /\ [][NextMic]_vars

\* the life cycle of several sessions and a stream of audio and interruptions
NextCarry ==
  \/ Life(MaxSessions)
  \/ \E i \in Sess, m \in AudioMessages, d \in 0..MaxTime :
        OnMessageAudio(i, m, d)
  \/ \E i \in Sess, m \in AudioMessages : OnMessagePlain(i, m)
  \/ DecodeDone
  \/ \E src \in sourcesRef, d \in 0..MaxTime : Ended(src, d)

SpecCarry == Init /\ [][NextCarry]_vars

\* ================================================================ claims
IsPrefix(a, b) == Len(a) <= Len(b) /\ SubSeq(b, 1, Len(a)) = a

HasVerse(hist, r) ==
  \E k \in 1..Len(hist) :
     hist[k].surahName = r.surahName /\ hist[k].ayahNumber = r.ayahNumber

\* ---------------------------------------------------------------- C1
\* C1: verseHistory never holds two entries with the same surahName and
\* ayahNumber, whatever start, stop, tool-call, error and close events ran.
C1_NoDuplicateVerses ==
  \A j, k \in 1..Len(verseHistory) :
     (/\ verseHistory[j].surahName = verseHistory[k].surahName
      /\ verseHistory[j].ayahNumber = verseHistory[k].ayahNumber) => j = k

\* two verses are stored and a call repeating one of them was handled
C1_Witness == Len(verseHistory) = 2 /\ dupSeen

\* ---------------------------------------------------------------- C8
\* the list that onmessage leaves for the tool-call message m obeys the
\* claim: a call for a verse in the list leaves that entry as it is, a call
\* for a verse not in the list puts it behind the old entries
C8_Handled(m) ==
  LET after == HistoryAfter(verseHistory, m.calls) IN
  /\ IsPrefix(verseHistory, after)
  /\ \A k \in Identified(m.calls) :
       IF HasVerse(verseHistory, m.calls[k].args)
         THEN \E j \in 1..Len(verseHistory) :
                 /\ verseHistory[j].surahName = m.calls[k].args.surahName
                 /\ verseHistory[j].ayahNumber = m.calls[k].args.ayahNumber
                 /\ after[j] = verseHistory[j]
         ELSE \E j \in (Len(verseHistory) + 1)..Len(after) :
                 /\ after[j].surahName = m.calls[k].args.surahName
                 /\ after[j].ayahNumber = m.calls[k].args.ayahNumber
  /\ (\A k \in Identified(m.calls) : HasVerse(verseHistory, m.calls[k].args))
        => after = verseHistory
  /\ (Len(m.calls) = 1 /\ Identified(m.calls) = {1}
      /\ ~HasVerse(verseHistory, m.calls[1].args))
        => after = Append(verseHistory, m.calls[1].args)

\* between two invocations of startSession the old list is a prefix of the
\* new one, and the list changes only by onmessage handling a message
C8_Step ==
  nStarted' = nStarted =>
    /\ IsPrefix(verseHistory, verseHistory')
    /\ verseHistory' # verseHistory =>
         \E i \in Sess, m \in ToolMessages : OnMessagePlain(i, m)

\* C8: between two invocations of startSession verseHistory only grows at
\* its end: every step but startSession leaves the old list a prefix of the
\* new one; a call for a verse not in the list puts it behind the old
\* entries, a call for a verse in the list leaves the list as it is, even
\* when the call carries another text; this is checked for every message
\* that an open connection can deliver.
C8_AppendOnly ==
  /\ [][C8_Step]_vars
  /\ []((\E i \in Sess : ws[i] = "open")
          => \A m \in ToolMessages : C8_Handled(m))

\* in the second session the list holds the first wording of a verse and the
\* next verse, and a call with the other wording was handled
C8_Witness ==
  /\ nStarted = 2 /\ dupSeen
  /\ Len(verseHistory) = 2
  /\ verseHistory[1].transcription = "v1"
  /\ verseHistory[2].ayahNumber = "2"

\* ---------------------------------------------------------------- C2
\* a step that starts a source after another one was started
StartsNext ==
  lastStarted'.id = lastStarted.id + 1 /\ lastStarted.id > 0

\* C2, as the specification states it: a buffer never starts before the
\* scheduled end (start time plus duration) of the buffer started before it,
\* in any sequence of audio, interruption, stop and start events.
C2_NeverBeforePreviousEnd ==
  [][StartsNext =>
       lastStarted'.when >= lastStarted.when + lastStarted.dur]_vars

\* C2, amended: a buffer never starts before the scheduled end of the buffer
\* started before it, unless an interruption was handled between the two
\* starts.
C2_NeverBeforePreviousEndUnlessInterrupted ==
  [][(StartsNext /\ ~lastStarted'.afterIntr) =>
       lastStarted'.when >= lastStarted.when + lastStarted.dur]_vars

\* a second buffer was started with no interruption since the first
C2_Witness == lastStarted.id = 2 /\ ~lastStarted.afterIntr

\* ---------------------------------------------------------------- C3
AllowedEdges ==
  {<<"IDLE", "CONNECTING">>, <<"CONNECTING", "LISTENING">>,
   <<"LISTENING", "IDLE">>, <<"CONNECTING", "ERROR">>,
   <<"LISTENING", "ERROR">>}

\* C3: appState changes only along idle -> connecting, connecting ->
\* listening, listening -> idle, and into error from connecting or listening.
C3_OnlyAllowedEdges ==
  [][appState' # appState => <<appState, appState'>> \in AllowedEdges]_vars

\* ---------------------------------------------------------------- C4
\* a stream error of connection i, or a failure of invocation i of startSession
ErrorStep(i) == OnError(i) \/ MediaDenied(i) \/ ConnectRejected(i)

\* C4: a stream error while appState is connecting or listening, and a start
\* failure while it is connecting, make appState error.
C4_ErrorsLeadToErrorState ==
  [][\A i \in Sess :
       (ErrorStep(i) /\ appState \in {"CONNECTING", "LISTENING"})
          => appState' = "ERROR"]_vars

\* ---------------------------------------------------------------- C5
RefsNull ==
  sessionRef = 0 /\ audioContextRef = 0 /\ outputAudioContextRef = 0

\* the connection and the audio contexts of invocation i are closed
TornDown(i) ==
  /\ ws[i] \notin {"connecting", "open"}
  /\ inCtx[i] # "running"
  /\ outCtx[i] # "running"

\* C5: every error, a stream error or a failure inside startSession, leaves
\* a message in error and the session torn down: the handle and both audio
\* contexts closed, the three references null.
C5_ErrorsTearDown ==
  [][\A i \in Sess :
       ErrorStep(i) => (error' # "null" /\ RefsNull' /\ TornDown(i)')]_vars

\* ---------------------------------------------------------------- C6
\* a step that runs stopSession: the button, or onerror
StopStep == StopClick \/ \E i \in Sess : OnError(i)

\* C6: stopSession leaves the handle and both contexts closed and their
\* references null, appState idle and the sequential flag false, and the
\* references stay null until startSession is invoked again.
C6_StopLeavesNothingHeld ==
  [][/\ StopStep =>
          /\ RefsNull' /\ appState' = "IDLE" /\ ~isVerifyingSequence'
          /\ sessionRef # 0 => ws'[sessionRef] \notin {"connecting", "open"}
          /\ audioContextRef # 0 => inCtx'[audioContextRef] = "closed"
          /\ outputAudioContextRef # 0 =>
               outCtx'[outputAudioContextRef] = "closed"
     /\ stopRan' => RefsNull']_vars

\* ---------------------------------------------------------------- C7
\* a step that handles a message reporting an interruption
InterruptStep ==
  \/ \E i \in Sess, m \in AudioMessages : m.interrupted /\ OnMessagePlain(i, m)
  \/ (pending # <<>> /\ Head(pending).msg.interrupted /\ DecodeDone)

\* C7: the set holds a source from its start to its removal and no longer:
\* every source started is in the set or has ended or been stopped, never
\* both; its 'ended' event takes it out; handling an interruption leaves
\* the set empty and the cursor at 0.
C7_Step ==
  /\ Ids(sourcesRef') \cap gone' = {}
  /\ Ids(sourcesRef') \cup gone' = 1..lastStarted'.id
  /\ \A src \in sourcesRef \cap sourcesRef', d \in 0..MaxTime : ~Ended(src, d)
  /\ (sourcesRef' = {} /\ nextStartTimeRef' = 0) \/ ~InterruptStep

C7_HeldUntilRemoved == [][C7_Step]_vars

\* an interruption stopped the one source started, before it could end
C7_Witness ==
  /\ intrSince /\ gone = {1} /\ lastStarted.id = 1
  /\ sourcesRef = {} /\ nextStartTimeRef = 0
  /\ \A i \in Sess : clock[i] = 0

\* ---------------------------------------------------------------- C9
\* C9: the sequential flag is false when a session starts listening, true
\* once an identifyQuranVerse call was received, false again after
\* stopSession and onclose; so whenever it is true, appState is listening
\* and verseHistory is not empty.
C9_FlagOnlyWhileListening ==
  isVerifyingSequence => (appState = "LISTENING" /\ verseHistory # <<>>)

\* ---------------------------------------------------------------- C10
\* C10: a buffer is started at the later of the output clock (read when its
\* message arrived, or later while it was decoded) and the scheduled end of
\* the buffer started before it (0 when there is none, or an interruption
\* cancelled it), and the cursor is then that start time plus the duration,
\* also when other messages arrive while the buffer is decoded.
C10_StartsAtLaterOfClockAndEnd ==
  [][(pending # <<>> /\ DecodeDone) =>
       LET h       == Head(pending)
           prevEnd == IF intrSince THEN 0
                      ELSE lastStarted.when + lastStarted.dur
       IN  /\ \E c \in h.sampled..clock[h.ctx] :
                lastStarted'.when = Max(c, prevEnd)
           /\ ~h.msg.interrupted =>
                nextStartTimeRef' = lastStarted'.when + lastStarted'.dur]_vars

\* ---------------------------------------------------------------- C11
\* everything handed to sendToolResponse / sendRealtimeInput or chained on a
\* connection promise that is still pending
RECURSIVE Waiting(_)
Waiting(n) == IF n = 0 THEN <<>> ELSE Waiting(n - 1) \o thens[n]

Issued == sent \o Waiting(MaxSessions)

OnlyIdentify(calls) ==
  SelectSeq(calls, LAMBDA c : c.name = "identifyQuranVerse")

\* every handled call named identifyQuranVerse has exactly one response,
\* carrying its id and name; a call of another name has none; a response
\* waits only while the connection promise is pending
C11_Responses ==
  LET all == Issued
      ResponsesTo(c) ==
        {k \in 1..Len(all) : all[k].kind = "toolResponse" /\ all[k].id = c.id}
  IN  /\ \A k \in 1..Len(received) :
           LET c == received[k]
               r == ResponsesTo(c)
           IN  /\ Cardinality(r) =
                    (IF c.name = "identifyQuranVerse" THEN 1 ELSE 0)
               /\ \A j \in r : all[j].name = c.name
      /\ \A j \in 1..Len(all) :
           all[j].kind = "toolResponse" => all[j].id \in 1..Len(received)
      /\ \A i \in Sess : thens[i] # <<>> => pc[i] = "connect"

\* the messages with a call of another name
OtherToolMessages ==
  {m \in ToolMessages : OnlyIdentify(m.calls) # m.calls}

\* handling a message leaves verseHistory and the flag as its
\* identifyQuranVerse calls alone would, and sends to the session of the
\* connection that delivered it: the calls of other names change nothing
C11_Step ==
  Len(received') > Len(received) =>
    \A i \in Sess, m \in OtherToolMessages :
       OnMessagePlain(i, m) =>
          /\ verseHistory' = HistoryAfter(verseHistory, OnlyIdentify(m.calls))
          /\ isVerifyingSequence' =
               (isVerifyingSequence \/ OnlyIdentify(m.calls) # <<>>)
          /\ Len(sent') + Len(thens'[i]) =
               Len(sent) + Len(thens[i]) + Len(OnlyIdentify(m.calls))
          /\ \A k \in (Len(sent) + 1)..Len(sent') : sent'[k].to = i

\* C11: for every identifyQuranVerse call of a received tool-call message
\* exactly one tool response with the call's id and name is sent to the
\* session (at once, or when the connection promise resolves), whether or
\* not the verse was a duplicate; a call of another name gets no response
\* and changes neither verseHistory nor the sequential flag.
C11_OneResponsePerCall ==
  /\ []C11_Responses
  /\ [][C11_Step]_vars

\* a verse, a repetition of it with another text and a call of another tool
\* were handled and the two responses were sent
C11_Witness ==
  /\ Len(received) = 3 /\ dupSeen
  /\ \E k \in 1..3 : received[k].name = "otherTool"
  /\ Len(sent) = 2 /\ \A i \in Sess : thens[i] = <<>>

\* ---------------------------------------------------------------- C12
\* the message m is handled and only a connection of an earlier invocation
\* of startSession can have delivered it
LateMessage(m) ==
  /\ \E i \in Sess : i # nStarted /\ OnMessagePlain(i, m)
  /\ ~OnMessagePlain(nStarted, m)

\* C12: startSession clears the error message and verseHistory, and the
\* list then only takes verses reported on the connection of the current
\* invocation: a tool-call message of an earlier session, delivered after
\* the new startSession, adds nothing to it.
C12_NothingCarriedOver ==
  [][/\ nStarted' # nStarted => (error' = "null" /\ verseHistory' = <<>>)
     /\ \A m \in ToolMessages :
          LateMessage(m) => verseHistory' = verseHistory]_vars

\* ---------------------------------------------------------------- C13
\* the chunk numbers handed to the handle of connection i, in sending order
ChunksTo(q, i) ==
  SelectSeq(q, LAMBDA x : x.kind = "realtimeInput" /\ x.to = i)

\* C13: a microphone chunk is handed to the session handle only after the
\* connection has opened and only while appState is LISTENING, and the
\* chunks of a connection are handed over in the order of their capture.
C13_ChunksOnlyWhileListening ==
  /\ [](\A i \in Sess : \A j, k \in 1..Len(ChunksTo(sent, i)) :
          j < k => ChunksTo(sent, i)[j].chunk < ChunksTo(sent, i)[k].chunk)
  /\ [][\A k \in (Len(sent) + 1)..Len(sent') :
          sent'[k].kind = "realtimeInput"
            => (sent'[k].to \in opened /\ appState = "LISTENING")]_vars

\* ---------------------------------------------------------------- C14
\* startSession has just created the output context of a new session
NewOutputContext ==
  outputAudioContextRef' # outputAudioContextRef /\ outputAudioContextRef' # 0

\* C14: playback state does not carry over between sessions: when a session
\* creates its output context the set of playing sources is empty and the
\* scheduling cursor is not ahead of the clock of that context.
C14_PlaybackStateNotCarriedOver ==
  [][NewOutputContext =>
       /\ sourcesRef' = {}
       /\ nextStartTimeRef' <= clock'[outputAudioContextRef']]_vars

\* ---------------------------------------------------------------- C15
\* the decode of the oldest waiting onmessage call is done, and an
\* interruption was handled while the call waited
StaleDecodeDone ==
  pending # <<>> /\ Head(pending).stale /\ DecodeDone

\* C15: audio received before an interruption is not started once the
\* interruption has been handled: when the decode of such a message is done,
\* no source is started and none is added to the set of playing sources.
C15_NoStartAfterInterruption ==
  [][StaleDecodeDone =>
       /\ lastStarted' = lastStarted
       /\ sourcesRef' \subseteq sourcesRef]_vars

\* ---------------------------------------------------------------- C16
\* the invocations of startSession that wait for the microphone, or whose
\* connection is being established or is open
Live ==
  {i \in Sess : pc[i] = "media" \/ ws[i] \in {"connecting", "open"}}

\* C16: at most one session is connecting or open at any time, and while
\* appState is IDLE no connection attempt is pending and no connection is
\* open.
C16_AtMostOneSession ==
  /\ Cardinality(Live) <= 1
  /\ appState = "IDLE" => Live = {}

\* ---------------------------------------------------------------- C17
\* C17: whenever appState is IDLE the session handle reference and both
\* audio context references are null, whichever way appState became IDLE:
\* stopSession, onclose, or a failure inside startSession.
C17_IdleHoldsNothing ==
  appState = "IDLE" => (sessionRef = 0 /\ audioContextRef = 0
                          /\ outputAudioContextRef = 0)

====
